---- MODULE Spec2Model ----
(***************************************************************************)
(* PlaywrightChatRunner: the action-plan validator (src/src/actionDsl.ts),  *)
(* the plan runner (src/src/playwrightRunner.ts) and the submit handler of *)
(* the chat view (chatProvider.ts).                                        *)
(*                                                                         *)
(* JavaScript values are records [t, v]: t is the value's kind and v its   *)
(* payload.  The payload of the fields "url" and "name" is a sequence of   *)
(* one-character strings, because the runner parses and rewrites them;     *)
(* the payload of every other string is a TLA+ string.                      *)
(***************************************************************************)
EXTENDS Integers, Sequences, FiniteSets, TLC

VARIABLES
    runs,           \* executePlan invocations: id -> locals of the call
    raw,            \* validateActionPlan: the untrusted input value
    enabledTools,   \* validateActionPlan: the caller's allow-list
    validation,     \* validateActionPlan: the returned value
    revalidation,   \* validateActionPlan: the value returned for the plan
    vpc,            \* position of the validating caller
    chat            \* ChatViewProvider: its fields and the locals of a submit

vars == <<runs, raw, enabledTools, validation, revalidation, vpc, chat>>

(* ------------------------------ bounds -------------------------------- *)

MaxPlanLen == 3
MaxSteps == 2

(* --------------------------- JavaScript values ------------------------ *)

Undef == [t |-> "undefined", v |-> ""]
Num == [t |-> "number", v |-> "42"]
Str(s) == [t |-> "string", v |-> s]
UndefC == [t |-> "undefined", v |-> <<>>]
NumC == [t |-> "number", v |-> <<"4", "2">>]
StrC(cs) == [t |-> "string", v |-> cs]

\* typeof x
TypeOf(x) == IF x.t = "null" THEN "object" ELSE x.t

\* !x for the values above
Falsy(x) == x.t \in {"undefined", "null"} \/ (x.t = "string" /\ Len(x.v) = 0)

\* arr.includes(x)
Includes(arr, x) == \E k \in 1..Len(arr) : arr[k] = x

(* ------------------------------ actionDsl ----------------------------- *)

\* Mutant of AVAILABLE_TOOLS: a kind is added to the schema alone.
AVAILABLE_TOOLS_Extended ==
    <<"goto", "clickText", "type", "waitForText", "extractText",
      "snapshotText", "screenshot", "closeBrowser", "deleteEverything">>

AVAILABLE_TOOLS ==
    <<"goto", "clickText", "type", "waitForText", "extractText",
      "snapshotText", "screenshot", "closeBrowser">>

\* A step value.  t = "object" is an ActionStep-shaped object, whose absent
\* fields are undefined; any other t is a non-object value in its place.
\* "extra" stands for a field that no action kind knows.
StepValue(t) ==
    [t |-> t, action |-> Undef, url |-> UndefC, text |-> Undef,
     selector |-> Undef, value |-> Undef, name |-> UndefC, extra |-> Undef]

ActionStep(a) == [StepValue("object") EXCEPT !.action = a]

NoIndex == 0 - 1

\* An error message: the template of the source with its two holes, the
\* step index (NoIndex for a message without the "Step i:" prefix) and the
\* interpolated action string.
StepError(index, template, arg) ==
    [index |-> index, template |-> template, arg |-> arg]

PlanError(template) == [index |-> NoIndex, template |-> template, arg |-> ""]

MustBeObject == "Step %: must be an object"
ActionMustBeString == "Step %: \"action\" must be a string"
NotEnabled == "Step %: action \"%\" is not in the enabled tools list"
GotoUrl == "Step %: \"goto\" requires a non-empty \"url\" string"
ClickTextText == "Step %: \"clickText\" requires a non-empty \"text\" string"
TypeSelector == "Step %: \"type\" requires a non-empty \"selector\" string"
TypeValue == "Step %: \"type\" requires a \"value\" string"
WaitForTextText == "Step %: \"waitForText\" requires a non-empty \"text\" string"
ExtractTextSelector == "Step %: \"extractText\" requires a non-empty \"selector\" string"
ScreenshotName == "Step %: \"screenshot\" requires a non-empty \"name\" string"
UnknownAction == "Step %: unknown action \"%\""
PlanMustBeObject == "Plan must be a JSON object"
StepsMustBeArray == "\"steps\" must be an array"

\* Mutant of NotAnObject: null, whose typeof is "object", is let through.
NotAnObjectByTypeof(x) == TypeOf(x) # "object"

\* typeof x !== 'object' || x === null
NotAnObject(x) == TypeOf(x) # "object" \/ x.t = "null"

\* Reading a property of x throws a TypeError.
ReadThrows(x) == x.t \in {"null", "undefined"}

\* typeof f !== 'string' || !f
NotNonEmptyString(f) == TypeOf(f) # "string" \/ Falsy(f)

\* Mutant of NotString: an empty string is refused too.
NotStringOrEmpty(f) == TypeOf(f) # "string" \/ Falsy(f)

\* typeof f !== 'string'
NotString(f) == TypeOf(f) # "string"

\* The switch of validateStep, reached with an enabled action string.
validateFields(s, index) ==
    LET action == s.action.v
        one(cond, template) ==
            IF cond THEN <<StepError(index, template, "")>> ELSE <<>>
    IN  CASE action = "goto" -> one(NotNonEmptyString(s.url), GotoUrl)
          [] action = "clickText" -> one(NotNonEmptyString(s.text), ClickTextText)
          [] action = "type" ->
                one(NotNonEmptyString(s.selector), TypeSelector)
                \o one(NotString(s.value), TypeValue)
          [] action = "waitForText" ->
                one(NotNonEmptyString(s.text), WaitForTextText)
          [] action = "extractText" ->
                one(NotNonEmptyString(s.selector), ExtractTextSelector)
          [] action \in {"snapshotText", "closeBrowser"} -> <<>>
          [] action = "screenshot" ->
                one(NotNonEmptyString(s.name), ScreenshotName)
          [] OTHER -> <<StepError(index, UnknownAction, action)>>

\* Mutant of IsEnabled: the action is looked up in the full schema.
IsEnabledIfKnown(action, tools) ==
    \E k \in 1..8 : <<"goto", "clickText", "type", "waitForText", "extractText",
                      "snapshotText", "screenshot", "closeBrowser">>[k] = action

\* enabledTools.includes(action)
IsEnabled(action, tools) == Includes(tools, action)

validateStep(step, index, tools) ==
    IF NotAnObject(step)
    THEN <<StepError(index, MustBeObject, "")>>
    ELSE IF TypeOf(step.action) # "string"
    THEN <<StepError(index, ActionMustBeString, "")>>
    ELSE IF ~IsEnabled(step.action.v, tools)
    THEN <<StepError(index, NotEnabled, step.action.v)>>
    ELSE validateFields(step, index)

\* validateStep throws: s.action is read of a value the guard let through.
validateStepThrows(step) == ~NotAnObject(step) /\ ReadThrows(step)

\* Mutant of collectErrors: the loop stops at the first step with errors.
RECURSIVE collectErrorsUntilFirst(_, _, _)
collectErrorsUntilFirst(steps, from, tools) ==
    IF from > Len(steps) THEN <<>>
    ELSE LET stepErrors == validateStep(steps[from], from - 1, tools)
         IN  IF Len(stepErrors) > 0 THEN stepErrors
             ELSE collectErrorsUntilFirst(steps, from + 1, tools)

\* The loop of validateActionPlan over steps[from..], from 1-based; the
\* index handed to validateStep is the 0-based one of the source.
RECURSIVE collectErrors(_, _, _)
collectErrors(steps, from, tools) ==
    IF from > Len(steps) THEN <<>>
    ELSE validateStep(steps[from], from - 1, tools)
         \o collectErrors(steps, from + 1, tools)

\* Mutant of ActionPlan: the plan holds the steps in reverse order.
ActionPlanReversed(steps) ==
    [t |-> "object", steps |-> [k \in 1..Len(steps) |-> steps[Len(steps) + 1 - k]]]

NoPlan == [t |-> "undefined", steps |-> <<>>]
ActionPlan(steps) == [t |-> "object", steps |-> steps]

\* A raw input: t is the kind of the value, stepsT the kind of its "steps"
\* property ("array" or anything else), steps the elements of the array.
RawValue(t, stepsT, steps) == [t |-> t, stepsT |-> stepsT, steps |-> steps]

\* Mutant of validateActionPlan: an empty steps array is refused.
validateActionPlanNonEmpty(r, tools) ==
    IF NotAnObject(r)
    THEN [valid |-> FALSE, errors |-> <<PlanError(PlanMustBeObject)>>, plan |-> NoPlan]
    ELSE IF r.stepsT # "array" \/ Len(r.steps) = 0
    THEN [valid |-> FALSE, errors |-> <<PlanError(StepsMustBeArray)>>, plan |-> NoPlan]
    ELSE LET errors == collectErrors(r.steps, 1, tools)
         IN  IF Len(errors) > 0
             THEN [valid |-> FALSE, errors |-> errors, plan |-> NoPlan]
             ELSE [valid |-> TRUE, errors |-> <<>>, plan |-> ActionPlan(r.steps)]

validateActionPlan(r, tools) ==
    IF NotAnObject(r)
    THEN [valid |-> FALSE, errors |-> <<PlanError(PlanMustBeObject)>>, plan |-> NoPlan]
    ELSE IF r.stepsT # "array"
    THEN [valid |-> FALSE, errors |-> <<PlanError(StepsMustBeArray)>>, plan |-> NoPlan]
    ELSE LET errors == collectErrors(r.steps, 1, tools)
         IN  IF Len(errors) > 0
             THEN [valid |-> FALSE, errors |-> errors, plan |-> NoPlan]
             ELSE [valid |-> TRUE, errors |-> <<>>, plan |-> ActionPlan(r.steps)]

\* validateActionPlan throws instead of returning: obj.steps or s.action is
\* read of a value the guards let through.
validateActionPlanThrows(r) ==
    /\ ~NotAnObject(r)
    /\ \/ ReadThrows(r)
       \/ r.stepsT = "array" /\ \E k \in 1..Len(r.steps) : validateStepThrows(r.steps[k])

(* --------------------- inputs of validateActionPlan ------------------- *)

ExampleUrl == <<"h", "t", "t", "p", "s", ":", "/", "/", "x", ".", "i", "o">>
AboutPage == <<"a", "b", "o", "u", "t", "-", "p", "a", "g", "e">>

\* Optional string fields as untrusted JSON may give them.
AnyField == {Undef, Num, Str(""), Str("About")}
AnyValue == {Undef, Str(""), Str("hello")}
AnySelector == {Undef, Str(""), Str("#input")}
AnyUrl == {UndefC, NumC, StrC(<<>>), StrC(ExampleUrl)}
AnyName == {UndefC, StrC(<<>>), StrC(AboutPage)}

\* The step values the validator is run on: non-objects, objects without an
\* action string, an action outside the schema, and every schema kind with
\* its required fields absent, mistyped, empty and present, some with
\* fields their kind does not know.
StepValues ==
    {StepValue("null"), StepValue("number")}
    \cup {ActionStep(Undef), ActionStep(Num), ActionStep(Str("deleteEverything"))}
    \cup {[ActionStep(Str("goto")) EXCEPT !.url = u] : u \in AnyUrl}
    \cup {[ActionStep(Str("goto")) EXCEPT !.url = StrC(ExampleUrl), !.text = Str("About")]}
    \cup {[ActionStep(Str("clickText")) EXCEPT !.text = f] : f \in AnyField}
    \cup {[ActionStep(Str("waitForText")) EXCEPT !.text = f] : f \in AnyField \ {Num}}
    \cup {[ActionStep(Str("type")) EXCEPT !.selector = f, !.value = g] :
             f \in AnySelector, g \in AnyValue}
    \cup {[ActionStep(Str("type")) EXCEPT !.selector = Str("#input"), !.value = Num]}
    \cup {[ActionStep(Str("extractText")) EXCEPT !.selector = f] : f \in AnySelector}
    \cup {[ActionStep(Str("screenshot")) EXCEPT !.name = n] : n \in AnyName}
    \cup {ActionStep(Str("snapshotText")),
          [ActionStep(Str("snapshotText")) EXCEPT !.extra = Str("x")]}
    \cup {ActionStep(Str("closeBrowser"))}

SeqsUpTo(S, n) == UNION {[1..k -> S] : k \in 0..n}

RawInputs ==
    {RawValue("null", "undefined", <<>>), RawValue("string", "undefined", <<>>),
     RawValue("object", "undefined", <<>>), RawValue("object", "string", <<>>)}
    \cup {RawValue("object", "array", steps) : steps \in SeqsUpTo(StepValues, MaxSteps)}

\* The allow-lists: every tool, one tool, none, and a list naming a string
\* that is no schema kind (the parameter is a string[]).
AllowLists ==
    {AVAILABLE_TOOLS, <<"clickText">>, <<>>, <<"goto", "type", "deleteEverything">>}

NoValidation == [valid |-> FALSE, errors |-> <<>>, plan |-> NoPlan]

\* A reply of the language model: whether JSON.parse accepts it, whether the
\* parsed value is an object with a "clarification" key, and the value.
Reply(json, clarification, value) ==
    [json |-> json, clarification |-> clarification, value |-> value]

NoReply == Reply(FALSE, FALSE, RawValue("undefined", "undefined", <<>>))

\* A ChatViewProvider with its view resolved and no submit yet: the field
\* _enabledTools, and of _handleSubmit its position, the tools named in the
\* system prompt, the reply, the allow-list and result of the validation,
\* and the messages posted to the webview.
NewChat ==
    [pc |-> "idle", _enabledTools |-> <<>>, promptTools |-> <<>>,
     response |-> NoReply, enabledTools |-> <<>>, validation |-> NoValidation,
     posted |-> <<>>]

(* ----------------------- the validating caller ------------------------ *)

InitValidate ==
    /\ runs = <<>>
    /\ raw \in RawInputs
    /\ enabledTools \in AllowLists
    /\ validation = NoValidation
    /\ revalidation = NoValidation
    /\ vpc = "input"
    /\ chat = NewChat

Validate ==
    /\ vpc = "input"
    /\ IF validateActionPlanThrows(raw)
       THEN vpc' = "threw" /\ UNCHANGED validation
       ELSE /\ validation' = validateActionPlan(raw, enabledTools)
            /\ vpc' = "validated"
    /\ UNCHANGED <<runs, raw, enabledTools, revalidation, chat>>

\* The data of a returned plan, { steps: [...] }, as an input value.
PlanData(plan) == RawValue("object", "array", plan.steps)

\* The caller validates the plan it was given, with the same allow-list.
Revalidate ==
    /\ vpc = "validated"
    /\ validation.valid
    /\ IF validateActionPlanThrows(PlanData(validation.plan))
       THEN vpc' = "threw" /\ UNCHANGED revalidation
       ELSE /\ revalidation' = validateActionPlan(PlanData(validation.plan), enabledTools)
            /\ vpc' = "revalidated"
    /\ UNCHANGED <<runs, raw, enabledTools, validation, chat>>

NextValidate == Validate \/ Revalidate

SpecValidate == InitValidate /\ [][NextValidate]_vars

(* --------------------------- characters ------------------------------- *)

LowerCase ==
    <<"a", "b", "c", "d", "e", "f", "g", "h", "i", "j", "k", "l", "m",
      "n", "o", "p", "q", "r", "s", "t", "u", "v", "w", "x", "y", "z">>
UpperCase ==
    <<"A", "B", "C", "D", "E", "F", "G", "H", "I", "J", "K", "L", "M",
      "N", "O", "P", "Q", "R", "S", "T", "U", "V", "W", "X", "Y", "Z">>
Digits == <<"0", "1", "2", "3", "4", "5", "6", "7", "8", "9">>

Range(f) == {f[k] : k \in DOMAIN f}
IsAlpha(c) == c \in Range(LowerCase) \cup Range(UpperCase)
IsAlnum(c) == IsAlpha(c) \/ c \in Range(Digits)
ToLower(c) ==
    IF c \in Range(UpperCase)
    THEN LowerCase[CHOOSE k \in DOMAIN UpperCase : UpperCase[k] = c]
    ELSE c

\* The first position of character c in cs at or after from, 0 if none.
RECURSIVE IndexFrom(_, _, _)
IndexFrom(cs, c, from) ==
    IF from > Len(cs) THEN 0
    ELSE IF cs[from] = c THEN from
    ELSE IndexFrom(cs, c, from + 1)

(* ------------------------------ new URL ------------------------------- *)
(* The URL parser of the platform, as far as the runner reads its result:  *)
(* whether the string parses without a base, and the protocol.  Leading    *)
(* and trailing spaces are stripped; the scheme is a letter followed by    *)
(* letters, digits, "+", "-", "." up to the first ":", lower-cased; a      *)
(* special scheme other than file needs a non-empty host without a         *)
(* forbidden host character.  Credentials, ports and paths are not parsed. *)

RECURSIVE TrimSpaces(_)
TrimSpaces(cs) ==
    IF Len(cs) > 0 /\ cs[1] = " " THEN TrimSpaces(Tail(cs))
    ELSE IF Len(cs) > 0 /\ cs[Len(cs)] = " " THEN TrimSpaces(SubSeq(cs, 1, Len(cs) - 1))
    ELSE cs

IsSchemeChar(c) == IsAlnum(c) \/ c \in {"+", "-", "."}

HostSpecialSchemes ==
    {<<"h", "t", "t", "p">>, <<"h", "t", "t", "p", "s">>, <<"f", "t", "p">>,
     <<"w", "s">>, <<"w", "s", "s">>}

ForbiddenHostChars == {" ", "<", ">", "^", "|", "%", "[", "]"}

\* The host of a special URL: what follows the scheme's ":" and any run of
\* slashes, up to the next "/", "\", "?" or "#".
RECURSIVE SkipSlashes(_)
SkipSlashes(cs) ==
    IF Len(cs) > 0 /\ cs[1] \in {"/", "\\"} THEN SkipSlashes(Tail(cs)) ELSE cs

RECURSIVE HostOf(_)
HostOf(cs) ==
    IF Len(cs) = 0 \/ cs[1] \in {"/", "\\", "?", "#"} THEN <<>>
    ELSE <<cs[1]>> \o HostOf(Tail(cs))

InvalidURL == [ok |-> FALSE, protocol |-> <<>>]

ParseURL(input) ==
    LET cs == TrimSpaces(input)
        colon == IndexFrom(cs, ":", 1)
    IN  IF colon < 2 \/ ~IsAlpha(cs[1])
           \/ \E k \in 2..(colon - 1) : ~IsSchemeChar(cs[k])
        THEN InvalidURL
        ELSE LET scheme == [k \in 1..(colon - 1) |-> ToLower(cs[k])]
                 host == HostOf(SkipSlashes(SubSeq(cs, colon + 1, Len(cs))))
             IN  IF scheme \in HostSpecialSchemes
                    /\ (Len(host) = 0 \/ \E k \in 1..Len(host) : host[k] \in ForbiddenHostChars)
                 THEN InvalidURL
                 ELSE [ok |-> TRUE, protocol |-> scheme \o <<":">>]

HttpProtocol == <<"h", "t", "t", "p", ":">>
HttpsProtocol == <<"h", "t", "t", "p", "s", ":">>

\* Mutant of SchemeRefused: only the file scheme is refused.
SchemeRefusedIfFile(protocol) == protocol = <<"f", "i", "l", "e", ":">>

\* parsed.protocol !== 'http:' && parsed.protocol !== 'https:'
SchemeRefused(protocol) == protocol # HttpProtocol /\ protocol # HttpsProtocol

(* --------------------------- path and os ------------------------------ *)

TmpDir == <<"/", "t", "m", "p">>

RECURSIVE StripTrailingSlashes(_)
StripTrailingSlashes(cs) ==
    IF Len(cs) > 0 /\ cs[Len(cs)] = "/"
    THEN StripTrailingSlashes(SubSeq(cs, 1, Len(cs) - 1))
    ELSE cs

\* The last position of "/" in cs, 0 if none.
RECURSIVE LastSlash(_)
LastSlash(cs) ==
    IF Len(cs) = 0 THEN 0
    ELSE IF cs[Len(cs)] = "/" THEN Len(cs)
    ELSE LastSlash(SubSeq(cs, 1, Len(cs) - 1))

\* path.basename (POSIX)
Basename(cs) ==
    LET p == StripTrailingSlashes(cs)
    IN  SubSeq(p, LastSlash(p) + 1, Len(p))

\* .replace(/[^a-zA-Z0-9_.-]/g, '_')
ReplaceUnsafe(cs) ==
    [k \in 1..Len(cs) |-> IF IsAlnum(cs[k]) \/ cs[k] \in {"_", ".", "-"} THEN cs[k] ELSE "_"]

\* Mutant of SafeName: the unsafe characters are not replaced.
SafeNameUnreplaced(name) == Basename(name)

SafeName(name) == ReplaceUnsafe(Basename(name))

\* path.join(os.tmpdir(), `${safeName}.png`)
ScreenshotPath(name) == TmpDir \o <<"/">> \o SafeName(name) \o <<".", "p", "n", "g">>

(* --------------------------- playwrightRunner ------------------------- *)

NoData == UndefC
NoError == [t |-> "undefined", message |-> "", arg |-> <<>>]
\* An error string: the message of the source with "%" for its hole, and
\* the characters interpolated there.
ErrorText(message, arg) == [t |-> "string", message |-> message, arg |-> arg]

ExecutionResult(action, success, data, error) ==
    [action |-> action, success |-> success, data |-> data, error |-> error]

Succeeded(step, data) == ExecutionResult(step.action, TRUE, data, NoError)
Failed(step, message, arg) ==
    ExecutionResult(step.action, FALSE, NoData, ErrorText(message, arg))

BROWSER_INIT == Str("browser-init")

\* The result pushed by the catch clause of executePlan.
BrowserInitResult(message) ==
    ExecutionResult(BROWSER_INIT, FALSE, NoData, ErrorText(message, <<>>))

UrlRequired == "\"url\" is required for goto"
OnlyHttp == "Only http and https URLs are allowed, got \"%\""
InvalidUrlText == "Invalid URL: \"%\" - %"
UnknownActionText == "Unknown action: %"
\* path.basename of a value that is no string throws; executeStep catches it.
PathTypeError == "The \"path\" argument must be of type string"

\* What the environment may answer: the messages of the errors the browser
\* library throws, and the text a page may hold.
LaunchErrors == {"Executable doesn't exist"}
BrowserErrors == {"Timeout exceeded"}
PageTexts == {<<"h", "i">>}

NoCall == [op |-> "none", url |-> <<>>, path |-> <<>>]
PageCall(op) == [op |-> op, url |-> <<>>, path |-> <<>>]

\* executeStep up to its first await: the result it returns without
\* touching the page (result.success is then meaningful and call.op is
\* "none"), or the page operation it starts.
ExecuteStepCall(step) ==
    LET a == step.action
        now(result) == [call |-> NoCall, result |-> result]
        await(call) == [call |-> call, result |-> Failed(step, "", <<>>)]
    IN  IF a = Str("goto")
        THEN IF Falsy(step.url) THEN now(Failed(step, UrlRequired, <<>>))
             ELSE LET parsed == ParseURL(step.url.v)
                  IN  IF ~parsed.ok THEN now(Failed(step, InvalidUrlText, step.url.v))
                      ELSE IF SchemeRefused(parsed.protocol)
                      THEN now(Failed(step, OnlyHttp, parsed.protocol))
                      ELSE await([PageCall("goto") EXCEPT !.url = step.url.v])
        ELSE IF a = Str("clickText") THEN await(PageCall("click"))
        ELSE IF a = Str("type") THEN await(PageCall("fill"))
        ELSE IF a = Str("waitForText") THEN await(PageCall("waitFor"))
        ELSE IF a = Str("extractText") THEN await(PageCall("innerText"))
        ELSE IF a = Str("snapshotText") THEN await(PageCall("innerText"))
        ELSE IF a = Str("screenshot")
        THEN IF step.name.t # "string" THEN now(Failed(step, PathTypeError, <<>>))
             ELSE await([PageCall("screenshot") EXCEPT !.path = ScreenshotPath(step.name.v)])
        ELSE IF a = Str("closeBrowser") THEN now(Succeeded(step, NoData))
        ELSE now(Failed(step, UnknownActionText, <<>>))

\* Mutant of StepSucceeded: every successful step carries the page's text.
StepSucceededWithText(step, call, text) == Succeeded(step, StrC(text))

\* executeStep after its page operation resolved.
StepSucceeded(step, call, text) ==
    IF call.op = "innerText" THEN Succeeded(step, StrC(text))
    ELSE IF call.op = "screenshot" THEN Succeeded(step, StrC(call.path))
    ELSE Succeeded(step, NoData)

\* executeStep after its page operation threw: the catch clause.
StepThrew(step, message) == Failed(step, message, <<>>)

\* The locals of one executePlan call, with what it has asked of the
\* browser so far: the operations in flight, the URLs handed to page.goto,
\* the paths handed to page.screenshot, the number of executeStep calls, the
\* step numbers they were made for, and the number of browser.close calls.
NewRun(plan) ==
    [pc |-> "start", plan |-> plan, results |-> <<>>, browser |-> "null",
     page |-> "null", i |-> 0, inflight |-> {}, gotoCalls |-> <<>>,
     written |-> <<>>, attempted |-> 0, executed |-> <<>>, closeCalls |-> 0]

\* return results
Return(s) == [s EXCEPT !.pc = "done"]

\* Mutant of Finally: the clause tests page where the source tests browser.
FinallyIfPage(s) ==
    IF s.page # "null"
    THEN [s EXCEPT !.pc = "close", !.inflight = s.inflight \cup {"close"},
                   !.closeCalls = s.closeCalls + 1]
    ELSE Return(s)

\* The finally clause, up to its await.
Finally(s) ==
    IF s.browser # "null"
    THEN [s EXCEPT !.pc = "close", !.inflight = s.inflight \cup {"close"},
                   !.closeCalls = s.closeCalls + 1]
    ELSE Return(s)

\* Mutant of Catch: the error is swallowed without a result.
CatchSilently(s, message) == Finally(s)

\* The catch clause, and the finally clause after it.
Catch(s, message) ==
    Finally([s EXCEPT !.results = Append(s.results, BrowserInitResult(message))])

TypeErrorText == "Cannot read properties of null"

\* The head of the for loop with step number s.i (from 1) next: the loop
\* ends, or the step is read and executeStep is called.  Reading steps of
\* a plan, or action of a step, that is null or undefined throws.
Loop(s) ==
    IF s.plan.t \in {"null", "undefined"} THEN Catch(s, TypeErrorText)
    ELSE IF s.i > Len(s.plan.steps) THEN Finally(s)
    ELSE LET step == s.plan.steps[s.i]
         IN  IF step.t \in {"null", "undefined"} THEN Catch(s, TypeErrorText)
             ELSE LET call == ExecuteStepCall(step).call
                  IN  [s EXCEPT !.pc = "step",
                                !.attempted = s.attempted + 1,
                                !.executed = Append(s.executed, s.i),
                                !.inflight = s.inflight \cup
                                    (IF call.op = "none" THEN {} ELSE {call.op}),
                                !.gotoCalls = IF call.op = "goto"
                                              THEN Append(s.gotoCalls, call.url)
                                              ELSE s.gotoCalls,
                                !.written = IF call.op = "screenshot"
                                            THEN Append(s.written, call.path)
                                            ELSE s.written]

\* Mutant of Pushed: the break after closeBrowser is missing.
PushedNoBreak(s, result) ==
    Loop([s EXCEPT !.results = Append(s.results, result), !.i = s.i + 1])

\* Mutant of Pushed: a failed step ends the loop.
PushedFailFast(s, result) ==
    LET t == [s EXCEPT !.results = Append(s.results, result)]
    IN  IF s.plan.steps[s.i].action = Str("closeBrowser") \/ ~result.success
        THEN Finally(t)
        ELSE Loop([t EXCEPT !.i = s.i + 1])

\* Mutant of Pushed: the result is put in front of the list.
PushedFront(s, result) ==
    LET t == [s EXCEPT !.results = <<result>> \o s.results]
    IN  IF s.plan.steps[s.i].action = Str("closeBrowser")
        THEN Finally(t)
        ELSE Loop([t EXCEPT !.i = s.i + 1])

\* Mutant of Pushed: closeBrowser breaks out before its result is appended.
PushedBreakFirst(s, result) ==
    IF s.plan.steps[s.i].action = Str("closeBrowser")
    THEN Finally(s)
    ELSE Loop([s EXCEPT !.results = Append(s.results, result), !.i = s.i + 1])

\* Mutant of Pushed: a failed step is tried again.
PushedRetry(s, result) ==
    LET t == [s EXCEPT !.results = Append(s.results, result)]
    IN  IF s.plan.steps[s.i].action = Str("closeBrowser")
        THEN Finally(t)
        ELSE Loop([t EXCEPT !.i = IF result.success THEN s.i + 1 ELSE s.i])

\* The rest of one iteration, once executeStep has returned result.
Pushed(s, result) ==
    LET t == [s EXCEPT !.results = Append(s.results, result)]
    IN  IF s.plan.steps[s.i].action = Str("closeBrowser")
        THEN Finally(t)
        ELSE Loop([t EXCEPT !.i = s.i + 1])

\* browser.close resolved: the finally clause ends and results is returned.
Closed(s) == Return([s EXCEPT !.browser = "closed", !.inflight = @ \ {"close"}])

\* Mutant of CloseThrew: the close error is reported as a result.
CloseThrewReported(s) ==
    Return([s EXCEPT !.browser = "closeFailed", !.inflight = @ \ {"close"},
                     !.results = Append(s.results, BrowserInitResult("close failed"))])

\* browser.close threw: the empty catch clause, then the same.
CloseThrew(s) ==
    Return([s EXCEPT !.browser = "closeFailed", !.inflight = @ \ {"close"}])

\* Mutant of Set: results is one list held by the runner, not a local of the
\* call.
SetSharedResults(r, s) ==
    runs' = [q \in DOMAIN runs |->
                IF q = r THEN s ELSE [runs[q] EXCEPT !.results = s.results]]

Set(r, s) == runs' = [runs EXCEPT ![r] = s]

UnchangedCaller == UNCHANGED <<raw, enabledTools, validation, revalidation, vpc, chat>>

\* The call up to its first await, of chromium.launch.
Launching(s) == [s EXCEPT !.pc = "launch", !.inflight = @ \cup {"launch"}]

\* executePlan is called: chromium.launch is awaited.
Start(r) ==
    /\ runs[r].pc = "start"
    /\ Set(r, Launching(runs[r]))
    /\ UnchangedCaller

LaunchDone(r) ==
    /\ runs[r].pc = "launch"
    /\ \/ Set(r, [runs[r] EXCEPT !.browser = "open", !.pc = "newContext",
                                 !.inflight = (@ \ {"launch"}) \cup {"newContext"}])
       \/ \E m \in LaunchErrors :
             Set(r, Catch([runs[r] EXCEPT !.inflight = @ \ {"launch"}], m))
    /\ UnchangedCaller

NewContextDone(r) ==
    /\ runs[r].pc = "newContext"
    /\ \/ Set(r, [runs[r] EXCEPT !.pc = "newPage",
                                 !.inflight = (@ \ {"newContext"}) \cup {"newPage"}])
       \/ \E m \in BrowserErrors :
             Set(r, Catch([runs[r] EXCEPT !.inflight = @ \ {"newContext"}], m))
    /\ UnchangedCaller

NewPageDone(r) ==
    /\ runs[r].pc = "newPage"
    /\ \/ Set(r, Loop([runs[r] EXCEPT !.page = "open", !.i = 1,
                                      !.inflight = @ \ {"newPage"}]))
       \/ \E m \in BrowserErrors :
             Set(r, Catch([runs[r] EXCEPT !.inflight = @ \ {"newPage"}], m))
    /\ UnchangedCaller

\* executeStep resolves and the loop goes on to its next await.
StepDone(r) ==
    LET s == runs[r]
        step == s.plan.steps[s.i]
    IN  /\ s.pc = "step"
        /\ \E x \in {ExecuteStepCall(step)} :
           \E idle \in {[s EXCEPT !.inflight = @ \ {x.call.op}]} :
              \/ /\ x.call.op = "none"
                 /\ Set(r, Pushed(idle, x.result))
              \/ /\ x.call.op # "none"
                 /\ \E text \in PageTexts :
                       Set(r, Pushed(idle, StepSucceeded(step, x.call, text)))
              \/ /\ x.call.op # "none"
                 /\ \E m \in BrowserErrors : Set(r, Pushed(idle, StepThrew(step, m)))
        /\ UnchangedCaller

\* browser.close resolves or throws; either way executePlan returns.
CloseDone(r) ==
    /\ runs[r].pc = "close"
    /\ \/ Set(r, Closed(runs[r]))
       \/ Set(r, CloseThrew(runs[r]))
    /\ UnchangedCaller

(* ------------------------ plans given to the runner ------------------- *)

PasswdUrl ==
    <<"f", "i", "l", "e", ":", "/", "/", "/", "e", "t", "c", "/",
      "p", "a", "s", "s", "w", "d">>

\* ActionStep values: an action string and optional string fields.
RunnerSteps ==
    {[ActionStep(Str("goto")) EXCEPT !.url = StrC(ExampleUrl)],
     [ActionStep(Str("goto")) EXCEPT !.url = StrC(PasswdUrl)],
     ActionStep(Str("goto")),
     [ActionStep(Str("clickText")) EXCEPT !.text = Str("About")],
     [ActionStep(Str("type")) EXCEPT !.selector = Str("#input"), !.value = Str("hello")],
     [ActionStep(Str("waitForText")) EXCEPT !.text = Str("About")],
     [ActionStep(Str("extractText")) EXCEPT !.selector = Str("#input")],
     ActionStep(Str("snapshotText")),
     [ActionStep(Str("screenshot")) EXCEPT !.name = StrC(AboutPage)],
     ActionStep(Str("closeBrowser")),
     ActionStep(Str("deleteEverything"))}

Plans == {ActionPlan(steps) : steps \in SeqsUpTo(RunnerSteps, MaxPlanLen)}

Init ==
    /\ \E plan \in Plans : runs = <<NewRun(plan)>>
    /\ raw = RawValue("null", "undefined", <<>>)
    /\ enabledTools = <<>>
    /\ validation = NoValidation
    /\ revalidation = NoValidation
    /\ vpc = "idle"
    /\ chat = NewChat

Next ==
    \/ \E r \in DOMAIN runs : Start(r)
    \/ \E r \in DOMAIN runs : LaunchDone(r)
    \/ \E r \in DOMAIN runs : NewContextDone(r)
    \/ \E r \in DOMAIN runs : NewPageDone(r)
    \/ \E r \in DOMAIN runs : StepDone(r)
    \/ \E r \in DOMAIN runs : CloseDone(r)

Spec == Init /\ [][Next]_vars

(* ------------------- goto steps over a range of URLs ------------------ *)

MaxGotoLen == 2

UpperUrl == <<"H", "T", "T", "P", ":", "/", "/", "x", ".", "i", "o">>
SpacedUrl == <<" ", "h", "t", "t", "p", ":", "/", "/", "x", ".", "i", "o">>
ScriptUrl ==
    <<"j", "a", "v", "a", "s", "c", "r", "i", "p", "t", ":",
      "a", "l", "e", "r", "t", "(", "1", ")">>
BareHost == <<"x", ".", "i", "o">>
NoHostUrl == <<"h", "t", "t", "p", ":", "/", "/">>
HttpxUrl == <<"h", "t", "t", "p", "x", ":", "/", "/", "x", ".", "i", "o">>

GotoUrls ==
    {UndefC, StrC(<<>>), StrC(ExampleUrl), StrC(UpperUrl), StrC(SpacedUrl),
     StrC(PasswdUrl), StrC(ScriptUrl), StrC(BareHost), StrC(NoHostUrl), StrC(HttpxUrl)}

GotoSteps == {[ActionStep(Str("goto")) EXCEPT !.url = u] : u \in GotoUrls}

InitGoto ==
    /\ \E steps \in SeqsUpTo(GotoSteps, MaxGotoLen) : runs = <<NewRun(ActionPlan(steps))>>
    /\ raw = RawValue("null", "undefined", <<>>)
    /\ enabledTools = <<>>
    /\ validation = NoValidation
    /\ revalidation = NoValidation
    /\ vpc = "idle"
    /\ chat = NewChat

SpecGoto == InitGoto /\ [][Next]_vars

(* ============================== claims ================================ *)

CloseBrowserStep(step) == step.action = Str("closeBrowser")

\* The position of the first closeBrowser step, or the number of steps.
LastAttempted(steps) ==
    IF \E k \in 1..Len(steps) : CloseBrowserStep(steps[k])
    THEN CHOOSE k \in 1..Len(steps) :
            /\ CloseBrowserStep(steps[k])
            /\ \A j \in 1..(k - 1) : ~CloseBrowserStep(steps[j])
    ELSE Len(steps)

SessionOpened(s) == s.page = "open"

\* C1: once the session is open, no step after the first closeBrowser is
\* ever executed, and the call returns one result for each step up to and
\* including the first closeBrowser (every step if there is none).
C1_EarlyTermination ==
    \A r \in DOMAIN runs :
        LET s == runs[r]
            last == LastAttempted(s.plan.steps)
        IN  SessionOpened(s) =>
                /\ s.attempted <= last
                /\ s.pc = "step" => s.i <= last
                /\ s.pc = "done" => Len(s.results) = last /\ s.attempted = last

C1_Witness ==
    \E r \in DOMAIN runs :
        LET s == runs[r]
        IN  /\ s.pc = "done"
            /\ Len(s.plan.steps) = 3
            /\ s.plan.steps[1].action = Str("goto")
            /\ CloseBrowserStep(s.plan.steps[2])
            /\ s.plan.steps[3].action = Str("screenshot")
            /\ Len(s.results) = 2

\* C2: a failed result of a step other than closeBrowser never ends the
\* loop: the step after it has been called as soon as the failure is
\* recorded, and has its own result when the call returns.
C2_FailureIsolation ==
    \A r \in DOMAIN runs :
        LET s == runs[r]
        IN  SessionOpened(s) =>
                \A k \in 1..Len(s.results) :
                    ( /\ ~s.results[k].success
                      /\ k < Len(s.plan.steps)
                      /\ ~CloseBrowserStep(s.plan.steps[k]) )
                    => /\ s.attempted >= k + 1
                       /\ s.pc \in {"close", "done"} => Len(s.results) >= k + 1

C2_Witness ==
    \E r \in DOMAIN runs :
        LET s == runs[r]
        IN  /\ s.pc = "done"
            /\ Len(s.results) = 3
            /\ s.plan.steps[1].action = Str("goto")
            /\ ~s.results[1].success
            /\ s.results[1].error.message \in BrowserErrors
            /\ s.results[2].success
            /\ ~s.results[3].success

\* C3: browser.close is called at most once, only from the finally clause,
\* and a call that launched a browser returns only after having closed it:
\* no run is done with a launched browser that was never closed.
C3_Teardown ==
    \A r \in DOMAIN runs :
        LET s == runs[r]
        IN  /\ s.closeCalls <= 1
            /\ s.closeCalls = 1 <=> s.pc = "close" \/ (s.pc = "done" /\ s.browser # "null")
            /\ s.pc = "done" => s.browser # "open"
            /\ s.pc = "close" => s.browser = "open"

C3_Witness ==
    \E r \in DOMAIN runs :
        LET s == runs[r]
        IN  /\ s.pc = "done"
            /\ s.browser = "closed"
            /\ s.page = "null"
            /\ s.closeCalls = 1

\* C4: when the session does not open, the call returns exactly one result,
\* failed, named browser-init (no schema kind), carrying the message of the
\* error thrown, and executeStep was never called.
C4_InitFailure ==
    \A r \in DOMAIN runs :
        LET s == runs[r]
        IN  (s.pc \in {"close", "done"} /\ ~SessionOpened(s)) =>
                /\ s.attempted = 0
                /\ Len(s.results) = 1
                /\ s.results[1].action = Str("browser-init")
                /\ \A k \in 1..Len(AVAILABLE_TOOLS) :
                        AVAILABLE_TOOLS[k] # s.results[1].action.v
                /\ ~s.results[1].success
                /\ s.results[1].data.t = "undefined"
                /\ s.results[1].error.t = "string"
                /\ s.results[1].error.message \in
                        (IF s.browser = "null" THEN LaunchErrors ELSE BrowserErrors)

C4_Witness ==
    \E r \in DOMAIN runs :
        LET s == runs[r]
        IN  /\ s.pc = "done"
            /\ s.browser = "null"
            /\ Len(s.plan.steps) = 2
            /\ Len(s.results) = 1

\* The URLs of GotoUrls whose scheme is http or https, by inspection.
HttpUrls == {ExampleUrl, UpperUrl, SpacedUrl}

\* C5: page.goto is called only with URLs whose scheme is http or https;
\* a goto step with any other URL, or none, gets a failed result and no
\* page operation is started for it.
C5_SchemeRestriction ==
    \A r \in DOMAIN runs :
        LET s == runs[r]
            steps == s.plan.steps
            refused(k) == steps[k].action = Str("goto") /\ steps[k].url.v \notin HttpUrls
        IN  /\ \A k \in 1..Len(s.gotoCalls) : s.gotoCalls[k] \in HttpUrls
            /\ SessionOpened(s) =>
                  \A k \in 1..Len(s.results) : refused(k) => ~s.results[k].success
            /\ (s.pc = "step" /\ refused(s.i)) => s.inflight = {}
            /\ Len(s.gotoCalls) =
                  Cardinality({k \in 1..s.attempted :
                      steps[k].action = Str("goto") /\ steps[k].url.v \in HttpUrls})

C5_Witness ==
    \E r \in DOMAIN runs :
        LET s == runs[r]
        IN  /\ s.pc = "done"
            /\ Len(s.results) = 2
            /\ s.plan.steps[1].url = StrC(ScriptUrl)
            /\ s.plan.steps[2].url = StrC(UpperUrl)
            /\ s.results[1].error.message = OnlyHttp
            /\ s.results[2].success
            /\ s.gotoCalls = <<UpperUrl>>

\* C6: from the moment browser.close is awaited, the result list does not
\* change and the call can only return: a failing close adds nothing.
C6_CloseErrorsSwallowed ==
    [][\A r \in DOMAIN runs :
          runs[r].pc = "close" =>
              /\ runs'[r].results = runs[r].results
              /\ runs'[r].pc \in {"close", "done"}]_vars

C6_Witness ==
    \E r \in DOMAIN runs :
        LET s == runs[r]
        IN  /\ s.pc = "done"
            /\ s.browser = "closeFailed"
            /\ Len(s.results) = 2

\* C7: while the session is open, the results are those of the first steps
\* of the plan, in plan order, one for each step executeStep has returned
\* from and none for any other.
C7_ResultsMatchSteps ==
    \A r \in DOMAIN runs :
        LET s == runs[r]
        IN  SessionOpened(s) =>
                /\ Len(s.results) <= Len(s.plan.steps)
                /\ \A k \in 1..Len(s.results) :
                        s.results[k].action = s.plan.steps[k].action
                /\ Len(s.results) = (IF s.pc = "step" THEN s.attempted - 1 ELSE s.attempted)
                /\ s.pc = "step" => s.i = Len(s.results) + 1

C7_Witness ==
    \E r \in DOMAIN runs :
        LET s == runs[r]
        IN  /\ s.pc = "step"
            /\ Len(s.results) = 2
            /\ s.i = 3
            /\ s.plan.steps[1].action = Str("type")
            /\ s.plan.steps[2].action = Str("extractText")
            /\ s.results[2].data = StrC(<<"h", "i">>)

Validated == vpc = "validated"

HasStepsArray(r) == r.t = "object" /\ r.stepsT = "array"

NonEmptyString(f) == f.t = "string" /\ f.v # ""
NonEmptyChars(f) == f.t = "string" /\ f.v # <<>>

\* A step as C8 describes it: an object whose action is a string of the
\* allow-list and whose kind's required fields are present and well typed.
AcceptableStep(step, tools) ==
    /\ step.t = "object"
    /\ step.action.t = "string"
    /\ \E j \in 1..Len(tools) : tools[j] = step.action.v
    /\ \/ step.action.v = "goto" /\ NonEmptyChars(step.url)
       \/ step.action.v \in {"clickText", "waitForText"} /\ NonEmptyString(step.text)
       \/ step.action.v = "type" /\ NonEmptyString(step.selector) /\ step.value.t = "string"
       \/ step.action.v = "extractText" /\ NonEmptyString(step.selector)
       \/ step.action.v = "screenshot" /\ NonEmptyChars(step.name)
       \/ step.action.v \in {"snapshotText", "closeBrowser"}

\* C8: an input whose steps are all acceptable is valid, has no errors, and
\* its plan holds the input's steps, unchanged and in the same order.
C8_ValidatorAccepts ==
    ( /\ Validated
      /\ HasStepsArray(raw)
      /\ \A k \in 1..Len(raw.steps) : AcceptableStep(raw.steps[k], enabledTools) )
    => /\ validation.valid
       /\ validation.errors = <<>>
       /\ validation.plan.t = "object"
       /\ validation.plan.steps = raw.steps

C8_Witness ==
    /\ Validated
    /\ validation.valid
    /\ Len(validation.plan.steps) = 2
    /\ validation.plan.steps[1].action = Str("type")
    /\ validation.plan.steps[1].value = Str("")
    /\ validation.plan.steps[2].action = Str("snapshotText")
    /\ validation.plan.steps[2].extra = Str("x")
    /\ Len(enabledTools) = 8

\* C9: a step whose action string is not in the allow-list makes the input
\* invalid, with the not-enabled error for that step and no plan.
C9_AllowListEnforced ==
    (Validated /\ HasStepsArray(raw)) =>
        \A k \in 1..Len(raw.steps) :
            LET step == raw.steps[k]
            IN  ( /\ step.t = "object"
                  /\ step.action.t = "string"
                  /\ \A j \in 1..Len(enabledTools) : enabledTools[j] # step.action.v )
                => /\ ~validation.valid
                   /\ validation.plan = NoPlan
                   /\ \E e \in 1..Len(validation.errors) :
                        validation.errors[e] =
                            [index |-> k - 1,
                             template |-> "Step %: action \"%\" is not in the enabled tools list",
                             arg |-> step.action.v]

C9_Witness ==
    /\ Validated
    /\ enabledTools = <<"clickText">>
    /\ Len(raw.steps) = 2
    /\ raw.steps[1].action = Str("clickText")
    /\ raw.steps[1].text = Str("About")
    /\ raw.steps[2].action = Str("goto")
    /\ raw.steps[2].url = StrC(ExampleUrl)
    /\ Len(validation.errors) = 1
    /\ validation.errors[1].index = 1

\* C10: a step whose action string is no schema kind is rejected with the
\* unknown-action message, which the not-enabled message is not.
C10_UnknownActionMessage ==
    (Validated /\ HasStepsArray(raw)) =>
        \A k \in 1..Len(raw.steps) :
            LET step == raw.steps[k]
            IN  ( /\ step.t = "object"
                  /\ step.action.t = "string"
                  /\ \A j \in 1..Len(AVAILABLE_TOOLS) : AVAILABLE_TOOLS[j] # step.action.v )
                => \E e \in 1..Len(validation.errors) :
                      /\ validation.errors[e].index = k - 1
                      /\ validation.errors[e].template = "Step %: unknown action \"%\""
                      /\ validation.errors[e].template # NotEnabled

\* The error of position e belongs to the step of position k (from 1).
ErrorOfStep(e, k) == validation.errors[e].index = k - 1

\* C11: every step is checked: each step that is not acceptable has at
\* least one error and each acceptable one has none; every error carries
\* the "Step i:" prefix with the 0-based index of a step of the input, and
\* the errors are in step order.
C11_ErrorsAccumulate ==
    (Validated /\ HasStepsArray(raw)) =>
        /\ \A k \in 1..Len(raw.steps) :
              (\E e \in 1..Len(validation.errors) : ErrorOfStep(e, k))
              <=> ~AcceptableStep(raw.steps[k], enabledTools)
        /\ \A e \in 1..Len(validation.errors) :
              /\ validation.errors[e].index \in 0..(Len(raw.steps) - 1)
              /\ validation.errors[e].template \in
                        {MustBeObject, ActionMustBeString, NotEnabled, GotoUrl,
                         ClickTextText, TypeSelector, TypeValue, WaitForTextText,
                         ExtractTextSelector, ScreenshotName, UnknownAction}
        /\ \A e, f \in 1..Len(validation.errors) :
              e < f => validation.errors[e].index <= validation.errors[f].index

C11_Witness ==
    /\ Validated
    /\ Len(enabledTools) = 8
    /\ Len(raw.steps) = 2
    /\ raw.steps[1] = ActionStep(Str("goto"))
    /\ raw.steps[2] = [ActionStep(Str("type")) EXCEPT !.selector = Str("#input")]
    /\ validation.errors =
          <<[index |-> 0, template |-> GotoUrl, arg |-> ""],
            [index |-> 1, template |-> TypeValue, arg |-> ""]>>

\* C12: validateActionPlan returns for every input; its result is valid
\* exactly when it has no errors and exactly when it has a plan; an input
\* that is no object, or whose steps is no array, gets exactly one error,
\* which is not an error of a step.
C12_ResultShape ==
    /\ vpc # "threw"
    /\ Validated =>
          /\ validation.valid <=> validation.errors = <<>>
          /\ validation.valid <=> validation.plan.t = "object"
          /\ ~validation.valid => validation.plan = NoPlan
          /\ ~HasStepsArray(raw) =>
                /\ Len(validation.errors) = 1
                /\ validation.errors[1].index = NoIndex

C12_Witness ==
    /\ Validated
    /\ raw.t = "null"
    /\ ~validation.valid
    /\ validation.errors = <<[index |-> NoIndex, template |-> PlanMustBeObject, arg |-> ""]>>

\* C14: validating the data of an accepted plan again, with the same
\* allow-list, accepts it again, without errors and with the same steps.
C14_Idempotent ==
    vpc = "revalidated" =>
        /\ revalidation.valid
        /\ revalidation.errors = <<>>
        /\ revalidation.plan.t = "object"
        /\ revalidation.plan.steps = validation.plan.steps

C14_Witness ==
    /\ vpc = "revalidated"
    /\ Len(enabledTools) = 3
    /\ Len(validation.plan.steps) = 2
    /\ validation.plan.steps[1].action = Str("goto")
    /\ validation.plan.steps[2].action = Str("type")
    /\ revalidation.plan = validation.plan

(* ----------------- screenshot steps over a range of names ------------- *)

MaxNameLen == 3

NameChars == {"a", "Z", "7", ".", "-", "_", "/", "\\", "<", " "}

EvilName ==
    <<".", ".", "/", ".", ".", "/", "e", "v", "i", "l",
      "<", "s", "c", "r", "i", "p", "t", ">">>

ScreenshotNames ==
    {UndefC, StrC(EvilName)} \cup {StrC(n) : n \in SeqsUpTo(NameChars, MaxNameLen)}

ScreenshotSteps == {[ActionStep(Str("screenshot")) EXCEPT !.name = n] : n \in ScreenshotNames}

InitShot ==
    /\ \E step \in ScreenshotSteps : runs = <<NewRun(ActionPlan(<<step>>))>>
    /\ raw = RawValue("null", "undefined", <<>>)
    /\ enabledTools = <<>>
    /\ validation = NoValidation
    /\ revalidation = NoValidation
    /\ vpc = "idle"
    /\ chat = NewChat

SpecShot == InitShot /\ [][Next]_vars

SafeFileChars ==
    {"a", "b", "c", "d", "e", "f", "g", "h", "i", "j", "k", "l", "m",
     "n", "o", "p", "q", "r", "s", "t", "u", "v", "w", "x", "y", "z",
     "A", "B", "C", "D", "E", "F", "G", "H", "I", "J", "K", "L", "M",
     "N", "O", "P", "Q", "R", "S", "T", "U", "V", "W", "X", "Y", "Z",
     "0", "1", "2", "3", "4", "5", "6", "7", "8", "9", "_", ".", "-"}

\* p is the temporary directory, a separator, and a file name of safe
\* characters only (hence without a separator) that ends in ".png".
SafeChildOfTmp(p) ==
    /\ Len(p) >= 9
    /\ SubSeq(p, 1, 5) = <<"/", "t", "m", "p", "/">>
    /\ \A k \in 6..Len(p) : p[k] \in SafeFileChars
    /\ SubSeq(p, Len(p) - 3, Len(p)) = <<".", "p", "n", "g">>

\* C15: every path handed to page.screenshot is a direct child of the
\* temporary directory whose file name has safe characters only and the
\* .png suffix; a screenshot step with a name string gets such a call, and
\* a successful result carries that path.
C15_ScreenshotPathSafe ==
    \A r \in DOMAIN runs :
        LET s == runs[r]
        IN  /\ \A k \in 1..Len(s.written) : SafeChildOfTmp(s.written[k])
            /\ (s.pc = "step" /\ s.plan.steps[s.i].name.t = "string") =>
                    s.inflight = {"screenshot"} /\ Len(s.written) = 1
            /\ \A k \in 1..Len(s.results) :
                    (SessionOpened(s) /\ s.results[k].success) =>
                        s.results[k].data = StrC(s.written[k])

C15_Witness ==
    \E r \in DOMAIN runs :
        LET s == runs[r]
        IN  /\ s.pc = "done"
            /\ s.plan.steps[1].name = StrC(EvilName)
            /\ Len(s.results) = 1
            /\ s.results[1].success
            /\ s.results[1].data =
                  StrC(<<"/", "t", "m", "p", "/", "e", "v", "i", "l", "_",
                         "s", "c", "r", "i", "p", "t", "_", ".", "p", "n", "g">>)

(* ------------- the same steps given to validator and runner ----------- *)

MaxVocabLen == 1

InitVocabulary ==
    /\ \E steps \in SeqsUpTo(RunnerSteps, MaxVocabLen) :
          /\ raw = RawValue("object", "array", steps)
          /\ runs = <<NewRun(ActionPlan(steps))>>
    /\ enabledTools \in AllowLists
    /\ validation = NoValidation
    /\ revalidation = NoValidation
    /\ vpc = "input"
    /\ chat = NewChat

NextVocabulary == Validate \/ Next

SpecVocabulary == InitVocabulary /\ [][NextVocabulary]_vars

InSchema(a) == \E k \in 1..Len(AVAILABLE_TOOLS) : AVAILABLE_TOOLS[k] = a

\* C16: the kinds of AVAILABLE_TOOLS are the kinds validateStep has a
\* branch for and the kinds executeStep has a branch for: an enabled action
\* gets the validator's unknown-action error exactly when it is not in
\* AVAILABLE_TOOLS, and a step gets the runner's unknown-action result
\* exactly when its action is not in AVAILABLE_TOOLS.
C16_VocabularyLockStep ==
    /\ Validated =>
          \A k \in 1..Len(raw.steps) :
              (\E j \in 1..Len(enabledTools) : enabledTools[j] = raw.steps[k].action.v)
              => ( (\E e \in 1..Len(validation.errors) :
                        /\ ErrorOfStep(e, k)
                        /\ validation.errors[e].template = UnknownAction)
                   <=> ~InSchema(raw.steps[k].action.v) )
    /\ \A r \in DOMAIN runs :
          LET s == runs[r]
          IN  SessionOpened(s) =>
                  \A k \in 1..Len(s.results) :
                      s.results[k].error.message = UnknownActionText
                      <=> ~InSchema(s.plan.steps[k].action.v)

C16_Witness ==
    /\ Validated
    /\ Len(raw.steps) = 1
    /\ raw.steps[1].action = Str("deleteEverything")
    /\ validation.errors = <<[index |-> 0, template |-> UnknownAction, arg |-> "deleteEverything"]>>
    /\ runs[1].pc = "done"
    /\ Len(runs[1].results) = 1
    /\ runs[1].results[1].error.message = UnknownActionText
(* --------------------------- one thing at a time ---------------------- *)

\* C18: an invocation has at most one browser operation in flight; while a
\* step is executing, the results of all earlier steps and of no other are
\* in the list, so step k+1 starts only after the result of step k was
\* appended; browser.close is in flight alone, and in an opened session only
\* once every attempted step has its result; nothing is in flight after the
\* return.
C18_Sequential ==
    \A r \in DOMAIN runs :
        LET s == runs[r]
        IN  /\ Cardinality(s.inflight) <= 1
            /\ s.pc = "step" => /\ s.attempted = Len(s.results) + 1
                                /\ s.inflight \subseteq
                                      {"goto", "click", "fill", "waitFor",
                                       "innerText", "screenshot"}
            /\ s.pc = "close" => /\ s.inflight = {"close"}
                                 /\ SessionOpened(s) => Len(s.results) = s.attempted
            /\ s.pc = "done" => s.inflight = {}

\* The browser is being closed after three steps, each with its result.
C18_Witness ==
    \E r \in DOMAIN runs :
        /\ runs[r].pc = "close"
        /\ runs[r].inflight = {"close"}
        /\ runs[r].attempted = 3
        /\ Len(runs[r].results) = 3
(* ------------------------------ termination --------------------------- *)

MaxFairLen == 2

ShortHttpUrl == <<"h", "t", "t", "p", ":", "x">>
ShortOtherUrl == <<"a", ":", "b">>

\* A step for each way executeStep can go: a navigation, a refused scheme, a
\* missing url, page operations with and without data, a file written, the
\* closeBrowser step, and an action executeStep does not know.
FairSteps ==
    {[ActionStep(Str("goto")) EXCEPT !.url = StrC(ShortHttpUrl)],
     [ActionStep(Str("goto")) EXCEPT !.url = StrC(ShortOtherUrl)],
     ActionStep(Str("goto")),
     [ActionStep(Str("clickText")) EXCEPT !.text = Str("About")],
     [ActionStep(Str("extractText")) EXCEPT !.selector = Str("#input")],
     [ActionStep(Str("screenshot")) EXCEPT !.name = StrC(<<"a">>)],
     ActionStep(Str("closeBrowser")),
     ActionStep(Str("deleteEverything"))}

\* One call with a plan of at most MaxFairLen steps; every operation asked
\* of the browser completes or fails in the end, so the call is always
\* resumed.
InitFair ==
    /\ \E plan \in {ActionPlan(steps) : steps \in SeqsUpTo(FairSteps, MaxFairLen)} :
          runs = <<NewRun(plan)>>
    /\ raw = RawValue("null", "undefined", <<>>)
    /\ enabledTools = <<>>
    /\ validation = NoValidation
    /\ revalidation = NoValidation
    /\ vpc = "idle"
    /\ chat = NewChat

SpecFair == InitFair /\ [][Next]_vars /\ WF_vars(Next)

\* C19: every call reaches its return, and at no time has it called
\* executeStep twice for one step of the plan, for a step the plan does not
\* have, or browser.close more than once.
C19_Termination ==
    /\ <>(\A r \in DOMAIN runs : runs[r].pc = "done")
    /\ [](\A r \in DOMAIN runs :
            LET s == runs[r]
            IN  /\ \A j, k \in 1..Len(s.executed) :
                      /\ s.executed[j] \in 1..Len(s.plan.steps)
                      /\ s.executed[j] = s.executed[k] => j = k
                /\ s.closeCalls <= 1)

\* A call has returned two results after two steps and one close.
C19_Witness ==
    \E r \in DOMAIN runs :
        /\ runs[r].pc = "done"
        /\ Len(runs[r].results) = 2
        /\ runs[r].executed = <<1, 2>>
        /\ runs[r].closeCalls = 1
(* ----------------------- two calls at the same time ------------------- *)

MaxTwoLen == 1

NameA == <<"a">>
NameBA == <<"b", "/", "a">>
NameB == <<"b">>

\* Screenshot steps of which the first two name the same file, a page
\* operation and the closeBrowser step.
TwoSteps ==
    {[ActionStep(Str("screenshot")) EXCEPT !.name = StrC(NameA)],
     [ActionStep(Str("screenshot")) EXCEPT !.name = StrC(NameBA)],
     [ActionStep(Str("screenshot")) EXCEPT !.name = StrC(NameB)],
     [ActionStep(Str("clickText")) EXCEPT !.text = Str("About")],
     ActionStep(Str("closeBrowser"))}

\* Two submits, each with its own runner, whose executePlan calls overlap.
InitTwo ==
    /\ \E p1, p2 \in {ActionPlan(steps) : steps \in SeqsUpTo(TwoSteps, MaxTwoLen)} :
          runs = <<NewRun(p1), NewRun(p2)>>
    /\ raw = RawValue("null", "undefined", <<>>)
    /\ enabledTools = <<>>
    /\ validation = NoValidation
    /\ revalidation = NoValidation
    /\ vpc = "idle"
    /\ chat = NewChat

SpecTwo == InitTwo /\ [][Next]_vars

OwnResults(s) ==
    \A k \in 1..Len(s.results) :
        \/ s.results[k].action = BROWSER_INIT
        \/ k <= Len(s.plan.steps) /\ s.results[k].action = s.plan.steps[k].action

\* The files both calls have asked the browser to write.
WrittenByBoth == Range(runs[1].written) \cap Range(runs[2].written)

\* C20 as stated: each call's results are results of its own plan's steps,
\* and no file is written by both calls.
C20_NothingWrittenByBoth ==
    /\ \A r \in DOMAIN runs : OwnResults(runs[r])
    /\ WrittenByBoth = {}

\* C20, amended: a call's resumption changes the locals, the browser and the
\* results of that call alone; each call closes its browser at most once
\* and holds only results of its own plan's steps; and a file is written by
\* both calls only if each plan has a screenshot step whose name gives that
\* file.
C20_Isolation ==
    /\ [][\E r \in DOMAIN runs : \A q \in DOMAIN runs \ {r} : runs'[q] = runs[q]]_vars
    /\ [](/\ \A r \in DOMAIN runs : OwnResults(runs[r]) /\ runs[r].closeCalls <= 1
          /\ \A p \in WrittenByBoth :
                \A r \in DOMAIN runs :
                    \E k \in 1..Len(runs[r].plan.steps) :
                        LET step == runs[r].plan.steps[k]
                        IN  /\ step.action = Str("screenshot")
                            /\ step.name.t = "string"
                            /\ ScreenshotPath(step.name.v) = p)

\* Both calls are waiting for a screenshot of the same file, asked for under
\* different names.
C20_Witness ==
    /\ Len(runs) = 2
    /\ runs[1].inflight = {"screenshot"}
    /\ runs[2].inflight = {"screenshot"}
    /\ runs[1].plan.steps[1].name # runs[2].plan.steps[1].name
    /\ runs[1].written = runs[2].written
(* ------------------------------- no steps ----------------------------- *)

ZeroStepsValid ==
    (Validated /\ HasStepsArray(raw) /\ Len(raw.steps) = 0) =>
        /\ validation.valid
        /\ Len(validation.errors) = 0
        /\ validation.plan.t = "object"
        /\ Len(validation.plan.steps) = 0

\* C13 as stated: an empty steps array is valid whatever the allow-list,
\* and a call with a plan of no steps never calls executeStep and returns
\* no result.
C13_ZeroStepsNoResult ==
    /\ ZeroStepsValid
    /\ \A r \in DOMAIN runs :
          LET s == runs[r]
          IN  Len(s.plan.steps) = 0 =>
                  /\ s.attempted = 0
                  /\ s.pc = "done" => Len(s.results) = 0

\* C13, amended: an empty steps array is valid whatever the allow-list, and
\* a call with a plan of no steps never calls executeStep; it returns no
\* result when the session opened, and the one browser-init result when it
\* did not.
C13_ZeroSteps ==
    /\ ZeroStepsValid
    /\ \A r \in DOMAIN runs :
          LET s == runs[r]
          IN  Len(s.plan.steps) = 0 =>
                  /\ s.attempted = 0
                  /\ s.pc # "step"
                  /\ s.pc = "done" =>
                        IF SessionOpened(s)
                        THEN Len(s.results) = 0 /\ s.closeCalls = 1
                        ELSE /\ Len(s.results) = 1
                             /\ s.results[1].action = BROWSER_INIT
                             /\ ~s.results[1].success

\* No steps were accepted under the empty allow-list, and the call with no
\* steps has opened and closed its session and returned nothing.
C13_Witness ==
    /\ Validated
    /\ enabledTools = <<>>
    /\ raw.steps = <<>>
    /\ validation.valid
    /\ \E r \in DOMAIN runs :
          /\ runs[r].pc = "done"
          /\ runs[r].plan.steps = <<>>
          /\ runs[r].browser = "closed"
          /\ runs[r].results = <<>>
(* -------------------------- the submit handler ------------------------ *)
(* ChatViewProvider._handleSubmit for one submit message, with updateTools *)
(* messages arriving at any time.  _chatHistory, which repeats what is     *)
(* posted, and the text of the prompts are left out.                       *)

MaxReplyLen == 2

\* this._enabledTools.length > 0 ? this._enabledTools : AVAILABLE_TOOLS.slice()
EffectiveTools(tools) == IF Len(tools) > 0 THEN tools ELSE AVAILABLE_TOOLS

\* isClarification after the inner try.
IsClarification(reply) == ~reply.json \/ reply.clarification

\* Mutant of Refused: the validation result is not looked at.
RefusedNever(v) == FALSE

\* !validation.valid || !validation.plan
Refused(v) == ~v.valid \/ v.plan.t = "undefined"

NoResult == ExecutionResult(Undef, FALSE, NoData, NoError)

\* A message posted to the webview: its type, its text (a template), the
\* validation errors it lists and the execution result it carries.
Message(type, text, errors, result) ==
    [type |-> type, text |-> text, errors |-> errors, result |-> result]

UserMessage == Message("userMessage", "%", <<>>, NoResult)
LlmMessage(text) == Message("llmMessage", text, <<>>, NoResult)
ErrorMessage(text) == Message("error", text, <<>>, NoResult)
InvalidPlanMessage(errors) == Message("error", "Invalid action plan:\n%", errors, NoResult)
ResultMessage(result) == Message("executionResult", "", <<>>, result)

Post(c, message) == [c EXCEPT !.posted = Append(@, message)]

LLMErrors == {"No language models available"}

\* Steps of a reply: acceptable ones, a goto without url, a null and an
\* action outside the schema.
SubmitSteps ==
    {[ActionStep(Str("goto")) EXCEPT !.url = StrC(ExampleUrl)],
     ActionStep(Str("goto")),
     [ActionStep(Str("clickText")) EXCEPT !.text = Str("About")],
     ActionStep(Str("closeBrowser")),
     StepValue("null"),
     ActionStep(Str("deleteEverything"))}

\* Replies: text that is no JSON, objects with a clarification key (one of
\* them with steps as well), JSON values that are no plan, and objects with
\* a steps array.
Replies ==
    {NoReply,
     Reply(TRUE, TRUE, RawValue("object", "undefined", <<>>)),
     Reply(TRUE, TRUE, RawValue("object", "array", <<ActionStep(Str("closeBrowser"))>>))}
    \cup {Reply(TRUE, FALSE, v) :
             v \in {RawValue("null", "undefined", <<>>), RawValue("string", "undefined", <<>>),
                    RawValue("object", "undefined", <<>>), RawValue("object", "string", <<>>)}}
    \cup {Reply(TRUE, FALSE, RawValue("object", "array", steps)) :
             steps \in SeqsUpTo(SubmitSteps, MaxReplyLen)}

UnchangedValidator == UNCHANGED <<raw, enabledTools, validation, revalidation, vpc>>

\* case 'updateTools'
UpdateTools ==
    /\ \E tools \in AllowLists : chat' = [chat EXCEPT !._enabledTools = tools]
    /\ UNCHANGED runs
    /\ UnchangedValidator

\* case 'submit': _handleSubmit up to its await of _callLLM.
Submit ==
    /\ chat.pc = "idle"
    /\ chat' = Post([chat EXCEPT !.pc = "llm",
                                 !.promptTools = EffectiveTools(chat._enabledTools)],
                    UserMessage)
    /\ UNCHANGED runs
    /\ UnchangedValidator
\* _callLLM resolved: the reply is parsed, shown as a clarification, or
\* validated and then refused or handed to a new runner, whose executePlan
\* runs to its first await.
ReplyArrives ==
    /\ chat.pc = "llm"
    /\ \E reply \in Replies :
       \E tools \in {EffectiveTools(chat._enabledTools)} :
       \E v \in {validateActionPlan(reply.value, tools)} :
          LET c == [chat EXCEPT !.response = reply]
              d == [c EXCEPT !.enabledTools = tools, !.validation = v]
          IN  IF IsClarification(reply)
              THEN /\ chat' = Post([c EXCEPT !.pc = "done"], LlmMessage("%"))
                   /\ UNCHANGED runs
              ELSE IF validateActionPlanThrows(reply.value)
              THEN /\ chat' = Post([c EXCEPT !.pc = "done"], ErrorMessage(TypeErrorText))
                   /\ UNCHANGED runs
              ELSE IF Refused(v)
              THEN /\ chat' = Post([d EXCEPT !.pc = "done"], InvalidPlanMessage(v.errors))
                   /\ UNCHANGED runs
              ELSE /\ chat' = Post([d EXCEPT !.pc = "running"],
                                   LlmMessage("Executing plan..."))
                   /\ runs' = Append(runs, Launching(NewRun(v.plan)))
    /\ UnchangedValidator

\* _callLLM threw, in either of its two calls: the outer catch clause.
LLMFails ==
    /\ chat.pc \in {"llm", "interpret"}
    /\ \E m \in LLMErrors : chat' = Post([chat EXCEPT !.pc = "done"], ErrorMessage(m))
    /\ UNCHANGED runs
    /\ UnchangedValidator

\* executePlan resolved: each result is posted, then _callLLM is awaited
\* for the interpretation.
ResultsReturned ==
    /\ chat.pc = "running"
    /\ runs[Len(runs)].pc = "done"
    /\ chat' = [chat EXCEPT !.pc = "interpret",
                            !.posted = @ \o [k \in 1..Len(runs[Len(runs)].results) |->
                                                ResultMessage(runs[Len(runs)].results[k])]]
    /\ UNCHANGED runs
    /\ UnchangedValidator

\* The second _callLLM resolved.
InterpretationArrives ==
    /\ chat.pc = "interpret"
    /\ chat' = Post([chat EXCEPT !.pc = "done"], LlmMessage("%"))
    /\ UNCHANGED runs
    /\ UnchangedValidator

InitSubmit ==
    /\ runs = <<>>
    /\ raw = RawValue("null", "undefined", <<>>)
    /\ enabledTools = <<>>
    /\ validation = NoValidation
    /\ revalidation = NoValidation
    /\ vpc = "idle"
    /\ chat = NewChat

NextSubmit ==
    \/ UpdateTools
    \/ Submit
    \/ ReplyArrives
    \/ LLMFails
    \/ \E r \in DOMAIN runs : LaunchDone(r)
    \/ \E r \in DOMAIN runs : NewContextDone(r)
    \/ \E r \in DOMAIN runs : NewPageDone(r)
    \/ \E r \in DOMAIN runs : StepDone(r)
    \/ \E r \in DOMAIN runs : CloseDone(r)
    \/ ResultsReturned
    \/ InterpretationArrives

SpecSubmit == InitSubmit /\ [][NextSubmit]_vars

PostedResults == {k \in 1..Len(chat.posted) : chat.posted[k].type = "executionResult"}

PostedValidationErrors ==
    {k \in 1..Len(chat.posted) :
        chat.posted[k].type = "error" /\ Len(chat.posted[k].errors) > 0}

\* The reply is a plan every step of which is acceptable under the
\* allow-list the handler validated it with.
ReplyAcceptable ==
    /\ chat.response.json
    /\ ~chat.response.clarification
    /\ HasStepsArray(chat.response.value)
    /\ \A k \in 1..Len(chat.response.value.steps) :
          AcceptableStep(chat.response.value.steps[k], chat.enabledTools)

\* C17: executePlan is called at most once for a submit, and only with the
\* plan the validator returned as valid for the reply of that submit, whose
\* steps are the reply's; after a reply that is no JSON, has a
\* clarification key or is not acceptable, no executePlan call exists and
\* no execution result is posted; and the posted messages never hold both
\* validation errors and execution results.
C17_ValidateBeforeRun ==
    /\ runs # <<>> =>
          /\ Len(runs) = 1
          /\ ReplyAcceptable
          /\ chat.validation.valid
          /\ runs[1].plan = chat.validation.plan
          /\ runs[1].plan.steps = chat.response.value.steps
    /\ (chat.pc \notin {"idle", "llm"} /\ ~ReplyAcceptable) =>
          runs = <<>> /\ PostedResults = {}
    /\ PostedResults # {} => runs # <<>> /\ runs[1].pc = "done"
    /\ PostedValidationErrors = {} \/ PostedResults = {}

\* A reply of two steps was accepted and executed, and its two results
\* were posted.
C17_Witness ==
    /\ chat.pc = "done"
    /\ Len(chat.response.value.steps) = 2
    /\ Cardinality(PostedResults) = 2
    /\ PostedValidationErrors = {}
    /\ \E k \in PostedResults : chat.posted[k].result = runs[1].results[2]
(* ------------------ the tools of the prompt and of the check ---------- *)

\* C21: once the reply of a submit was validated, the kinds the system
\* prompt of that submit listed are the kinds of the allow-list the reply
\* was validated with, whatever updateTools messages arrived meanwhile.
C21_PromptToolsValidated ==
    chat.validation # NoValidation =>
        Range(chat.promptTools) = Range(chat.enabledTools)
(* ------------------------- the shape of a result ---------------------- *)

DataKinds == {Str("extractText"), Str("snapshotText"), Str("screenshot")}

\* C22: every result of a call is a success without error or a failure
\* with an error string and without data; data comes only with a success of
\* extractText, snapshotText or screenshot; and the result of a closeBrowser
\* step is a success with neither data nor error.
C22_ExecutionResultShape ==
    \A r \in DOMAIN runs :
        \A k \in 1..Len(runs[r].results) :
            LET x == runs[r].results[k]
            IN  /\ \/ x.success /\ x.error.t = "undefined"
                   \/ ~x.success /\ x.error.t = "string" /\ x.data.t = "undefined"
                /\ x.data.t # "undefined" => x.success /\ x.action \in DataKinds
                /\ x.action = Str("closeBrowser") =>
                        x.success /\ x.data.t = "undefined" /\ x.error.t = "undefined"

\* A call returned a text, a failure and the success of closeBrowser.
C22_Witness ==
    \E r \in DOMAIN runs :
        LET s == runs[r]
        IN  /\ s.pc = "done"
            /\ Len(s.results) = 3
            /\ s.results[1].action = Str("extractText") /\ s.results[1].data.t = "string"
            /\ ~s.results[2].success /\ s.results[2].error.t = "string"
            /\ s.results[3].action = Str("closeBrowser") /\ s.results[3].success
(* ----------------------- plans made by hand --------------------------- *)

MaxHandLen == 2

\* Steps of a plan that never met the validator: two steps of the schema,
\* a null and a number.
HandSteps ==
    {ActionStep(Str("snapshotText")),
     [ActionStep(Str("clickText")) EXCEPT !.text = Str("About")],
     ActionStep(Str("closeBrowser")),
     StepValue("null"),
     StepValue("number")}

\* executePlan is called with any value: no plan at all, or an object
\* whose steps are any values.
InitHand ==
    /\ \E plan \in {NoPlan} \cup {ActionPlan(steps) : steps \in SeqsUpTo(HandSteps, MaxHandLen)} :
          runs = <<NewRun(plan)>>
    /\ raw = RawValue("null", "undefined", <<>>)
    /\ enabledTools = <<>>
    /\ validation = NoValidation
    /\ revalidation = NoValidation
    /\ vpc = "idle"
    /\ chat = NewChat

SpecHand == InitHand /\ [][Next]_vars

\* C23: whatever the plan, a browser-init result is held only by a call
\* whose session did not open, and it is the first result of the call.
C23_BrowserInitOnlyOnOpening ==
    \A r \in DOMAIN runs :
        \A k \in 1..Len(runs[r].results) :
            runs[r].results[k].action = BROWSER_INIT =>
                ~SessionOpened(runs[r]) /\ k = 1

====
